---- MODULE Spec2Model ----
(***************************************************************************)
(* A model of TP1/ej_2.py: the tokenizer, the multinomial Naive Bayes      *)
(* classifier (fit, posteriors, predict, classify), the stratified         *)
(* train/test split, the multi-class confusion grid and the ROC sweep.     *)
(*                                                                         *)
(* Representation.                                                         *)
(*  - A headline is the sequence of its whitespace-separated raw words     *)
(*    (what text.split() returns).                                         *)
(*  - A data-frame row is a record [id, titular, categoria]; id is the     *)
(*    row's identity in the input frame.                                   *)
(*  - A Python dict is a record [keys, val]: keys is the insertion order,  *)
(*    val the mapping.  The per-category tables of class_word_counts are   *)
(*    plain functions (their key order is never observed).                 *)
(*  - Python floats are modelled as exact fractions [n, d]; rounding and   *)
(*    underflow of the floating-point product are not modelled.            *)
(*  - A raised exception is a status field that is not "ok".               *)
(***************************************************************************)
EXTENDS Integers, Sequences, FiniteSets, TLC

VARIABLES
    pc,                 \* position of the calling script
    tokenizer,          \* the Tokenizer configuration of the classifier
    df,                 \* input frame of train_test_split
    test_size,          \* test fraction, in tenths
    train_set,          \* x_train / y_train (rows)
    test_set,           \* x_test / y_test (rows)
    vocab,              \* NaiveBayesClassifier.vocab
    class_word_counts,  \* NaiveBayesClassifier.class_word_counts
    class_priors,       \* NaiveBayesClassifier.class_priors
    ret                 \* what the last call returned or raised

vars == <<pc, tokenizer, df, test_size, train_set, test_set,
          vocab, class_word_counts, class_priors, ret>>

----------------------------------------------------------------------------
(* Bounds of the model *)

MaxDocs == 2        \* training documents handed to fit directly
MaxTest == 1        \* evaluated documents handed to predict/classify/roc
MaxRows == 3        \* rows of the frame handed to train_test_split

(* Program constants *)

ShortWordLen == 3        \* remove_short_words(word, n=3)
NumThresholds == 11      \* np.linspace(0.0, 1.0, 11)
DefaultTestTenths == 3   \* train_test_split(test_size=0.3)
PipelineTestTenths == 2  \* split_train_test: test_size=0.2

TOTAL == "__total__"     \* the key of the running token total
NaN == "nan"             \* a missing value of a frame

----------------------------------------------------------------------------
(* Universes the inputs are drawn from *)

Categories == {"finance", "sports"}

Headlines ==
    { <<>>, <<"Wins">>, <<"__total__">>, <<"Wins", "Team">> }

SplitHeadlines == { <<"Wins">>, <<"Wins", "Team">> }

ScenarioTrain ==
    << [id |-> 1, titular |-> <<"stocks", "rally", "today">>, categoria |-> "finance"],
       [id |-> 2, titular |-> <<"team", "wins", "championship">>, categoria |-> "sports"],
       [id |-> 3, titular |-> <<"market", "crash", "fears">>, categoria |-> "finance"] >>

SeqsUpTo(S, n) == UNION { [1..k -> S] : k \in 0..n }

RowsOver(heads, n) ==
    { [i \in 1..Len(s) |-> [id |-> i, titular |-> s[i][1], categoria |-> s[i][2]]] :
        s \in SeqsUpTo(heads \X Categories, n) }

TrainSets == RowsOver(Headlines, MaxDocs) \cup {ScenarioTrain}
TestSets == RowsOver(Headlines, MaxTest)
Frames == RowsOver(Headlines, MaxRows)
SplitFrames == RowsOver(SplitHeadlines, MaxRows)

\* test fractions, in tenths: none, the pipeline's, the default, a half, all
TestTenths == {0, PipelineTestTenths, DefaultTestTenths, 5, 10}

TokenizerConfigs == {"identity", "complex"}

----------------------------------------------------------------------------
(* Exact fractions standing for Python floats *)

RECURSIVE GCD(_, _)
GCD(a, b) == IF b = 0 THEN a ELSE GCD(b, a % b)

Rat(n, d) == LET g == GCD(n, d) IN
             IF g = 0 THEN [n |-> 0, d |-> 1] ELSE [n |-> n \div g, d |-> d \div g]

RatMul(x, y) ==
    LET g1 == GCD(x.n, y.d)
        g2 == GCD(y.n, x.d)
    IN Rat((x.n \div g1) * (y.n \div g2), (x.d \div g2) * (y.d \div g1))

RatAdd(x, y) ==
    LET g == GCD(x.d, y.d)
    IN Rat(x.n * (y.d \div g) + y.n * (x.d \div g), (x.d \div g) * y.d)

RatDiv(x, y) == RatMul(x, [n |-> y.d, d |-> y.n])

RatLess(x, y) == x.n * y.d < y.n * x.d

RatZero == [n |-> 0, d |-> 1]
RatOne == [n |-> 1, d |-> 1]

----------------------------------------------------------------------------
(* Python dicts: insertion-ordered keys and a mapping *)

EmptyFcn == [k \in {} |-> 0]

EmptyDict == [keys |-> <<>>, val |-> EmptyFcn]

HasKey(d, k) == k \in DOMAIN d.val

DictSet(d, k, v) ==
    [keys |-> IF HasKey(d, k) THEN d.keys ELSE Append(d.keys, k),
     val |-> [x \in (DOMAIN d.val) \cup {k} |-> IF x = k THEN v ELSE d.val[x]]]

FcnSet(f, k, v) == [x \in (DOMAIN f) \cup {k} |-> IF x = k THEN v ELSE f[x]]

----------------------------------------------------------------------------
(* str methods on the words of the universe *)

WordLen(w) ==
    CASE w = "Wins" -> 4 [] w = "Team" -> 4 [] w = "__total__" -> 9
      [] w = "stocks" -> 6 [] w = "rally" -> 5 [] w = "today" -> 5
      [] w = "team" -> 4 [] w = "wins" -> 4 [] w = "championship" -> 12
      [] w = "market" -> 6 [] w = "crash" -> 5 [] w = "fears" -> 5
      [] w = "total" -> 5

IsAlpha(w) == w # "__total__"

ToLowerStr(w) ==
    CASE w = "Wins" -> "wins" [] w = "Team" -> "team" [] OTHER -> w

StripPunctuation(w) == IF w = "__total__" THEN "total" ELSE w

remove_short_words(word) == WordLen(word) > ShortWordLen

remove_non_alpha(word) == IsAlpha(word)

complex_filter(word) == remove_short_words(word) /\ remove_non_alpha(word)

to_lower(word) == ToLowerStr(word)

remove_punctuation(word) == StripPunctuation(word)

complex_sanitize(word) == to_lower(remove_punctuation(word))

identity(word) == word

identity_filter(word) == TRUE

Filter(tok, word) ==
    IF tok = "complex" THEN complex_filter(word) ELSE identity_filter(word)

Sanitizer(tok, word) ==
    IF tok = "complex" THEN complex_sanitize(word) ELSE identity(word)

RECURSIVE tokenizer_apply(_, _)
tokenizer_apply(tok, text) ==
    IF text = <<>> THEN <<>>
    ELSE LET word == Head(text)
             rest == tokenizer_apply(tok, Tail(text))
         IN IF Filter(tok, word) THEN <<Sanitizer(tok, word)>> \o rest ELSE rest

----------------------------------------------------------------------------
(* NaiveBayesClassifier.fit *)

RowLabels(X) == [i \in 1..Len(X) |-> X[i].categoria]

\* a slip: only the first token of a document reaches the vocabulary
vocab_update_first(v, words) == v \cup { words[j] : j \in 1..(IF Len(words) > 0 THEN 1 ELSE 0) }

\* self.vocab.update(words)
vocab_update(v, words) == v \cup { words[j] : j \in 1..Len(words) }

\* if label not in self.class_word_counts: ... ['__total__'] = 0
ensure_label(cwc, label) ==
    IF HasKey(cwc, label) THEN cwc
    ELSE DictSet(cwc, label, FcnSet(EmptyFcn, TOTAL, 0))

\* a slip: `=` for `+=`, the total of the last document replaces the running total
add_total_assign(cwc, label, words) ==
    DictSet(cwc, label, FcnSet(cwc.val[label], TOTAL, Len(words)))

\* self.class_word_counts[label]['__total__'] += len(words)
add_total(cwc, label, words) ==
    DictSet(cwc, label,
            FcnSet(cwc.val[label], TOTAL, cwc.val[label][TOTAL] + Len(words)))

\* one pass of the body of `for word in words`
count_word(counts, word) ==
    LET c0 == IF word \in DOMAIN counts THEN counts ELSE FcnSet(counts, word, 0)
    IN FcnSet(c0, word, c0[word] + 1)

RECURSIVE count_words(_, _)
count_words(counts, words) ==
    IF words = <<>> THEN counts
    ELSE count_words(count_word(counts, Head(words)), Tail(words))

\* the body of `for i in range(len(X))`, on the pair (vocab, class_word_counts)
fit_document(m, tok, row) ==
    LET label == row.categoria
        words == tokenizer_apply(tok, row.titular)
        c1 == ensure_label(m.class_word_counts, label)
        c2 == add_total(c1, label, words)
        c3 == DictSet(c2, label, count_words(c2.val[label], words))
    IN [vocab |-> vocab_update(m.vocab, words), class_word_counts |-> c3]

RECURSIVE fit_loop(_, _, _, _)
fit_loop(m, tok, X, i) ==
    IF i > Len(X) THEN m
    ELSE fit_loop(fit_document(m, tok, X[i]), tok, X, i + 1)

\* a slip: the division hoisted out of the comprehension, evaluated even with no category
compute_priors_eager(cwc, total_documents) ==
    IF total_documents = 0 THEN [status |-> "ZeroDivisionError", priors |-> EmptyDict]
    ELSE [status |-> "ok",
          priors |-> [keys |-> cwc.keys,
                      val |-> [l \in DOMAIN cwc.val |->
                                 Rat(cwc.val[l][TOTAL], total_documents)]]]

\* the dict comprehension of class_priors: one division per category
compute_priors(cwc, total_documents) ==
    IF cwc.keys = <<>> THEN [status |-> "ok", priors |-> EmptyDict]
    ELSE IF total_documents = 0
         THEN [status |-> "ZeroDivisionError", priors |-> EmptyDict]
         ELSE [status |-> "ok",
               priors |-> [keys |-> cwc.keys,
                           val |-> [l \in DOMAIN cwc.val |->
                                      Rat(cwc.val[l][TOTAL], total_documents)]]]

fit(m0, tok, X) ==
    LET m == fit_loop(m0, tok, X, 1)
        p == compute_priors(m.class_word_counts, Len(RowLabels(X)))
    IN [status |-> p.status,
        vocab |-> m.vocab,
        class_word_counts |-> m.class_word_counts,
        class_priors |-> p.priors]

\* NaiveBayesClassifier.__init__
NewModel == [vocab |-> {}, class_word_counts |-> EmptyDict]

----------------------------------------------------------------------------
(* NaiveBayesClassifier._calculate_posteriors *)

\* `for word in words: likelihood *= (word_count + 1) / (total_words + len(vocab))`
RECURSIVE likelihood(_, _, _, _)
likelihood(acc, counts, v, words) ==
    IF words = <<>> THEN [status |-> "ok", value |-> acc]
    ELSE LET word == Head(words)
             word_count == IF word \in DOMAIN counts THEN counts[word] ELSE 0
             total_words == counts[TOTAL]
             den == total_words + Cardinality(v)
         IN IF den = 0 THEN [status |-> "ZeroDivisionError", value |-> acc]
            ELSE likelihood(RatMul(acc, Rat(word_count + 1, den)), counts, v, Tail(words))

\* posteriors of the categories keys[i..]; the dict keeps the order of class_priors
RECURSIVE posteriors_loop(_, _, _, _)
posteriors_loop(m, words, i, acc) ==
    IF i > Len(m.class_priors.keys) THEN [status |-> "ok", posteriors |-> acc]
    ELSE LET label == m.class_priors.keys[i]
             prior == m.class_priors.val[label]
             lk == likelihood(RatOne, m.class_word_counts.val[label], m.vocab, words)
         IN IF lk.status # "ok" THEN [status |-> lk.status, posteriors |-> acc]
            ELSE posteriors_loop(m, words, i + 1,
                                 DictSet(acc, label, RatMul(prior, lk.value)))

calculate_posteriors(m, tok, text) ==
    posteriors_loop(m, tokenizer_apply(tok, text), 1, EmptyDict)

----------------------------------------------------------------------------
(* NaiveBayesClassifier.predict *)

\* max(posteriors, key=posteriors.get): the first key, in the dict's order,
\* that no earlier or later key beats; only a strictly greater value replaces it
\* a slip: `>=` for `>`, a later key that ties replaces the earlier one
beats_or_ties(d, candidate, best) == ~RatLess(d.val[candidate], d.val[best])

\* max() replaces its running maximum only by a strictly greater value
beats(d, candidate, best) == RatLess(d.val[best], d.val[candidate])

RECURSIVE max_key_loop(_, _, _)
max_key_loop(d, i, best) ==
    IF i > Len(d.keys) THEN best
    ELSE max_key_loop(d, i + 1, IF beats(d, d.keys[i], best) THEN d.keys[i] ELSE best)

max_key(d) == max_key_loop(d, 2, d.keys[1])

\* predictions.append(max(posteriors, key=posteriors.get)), p the posteriors
predict_append(r, p) ==
    IF p.status # "ok" THEN [r EXCEPT !.status = p.status]
    ELSE IF p.posteriors.keys = <<>> THEN [r EXCEPT !.status = "ValueError"]
    ELSE [r EXCEPT !.y_pred = Append(@, max_key(p.posteriors))]

RECURSIVE predict_loop(_, _, _, _, _)
predict_loop(m, tok, X, i, r) ==
    IF i > Len(X) \/ r.status # "ok" THEN r
    ELSE predict_loop(m, tok, X, i + 1,
                      predict_append(r, calculate_posteriors(m, tok, X[i].titular)))

predict(m, tok, X) == predict_loop(m, tok, X, 1, [status |-> "ok", y_pred |-> <<>>])

----------------------------------------------------------------------------
(* NaiveBayesClassifier.classify *)

\* sum(posteriors.values())
RECURSIVE sum_values(_, _)
sum_values(d, i) ==
    IF i > Len(d.keys) THEN RatZero
    ELSE RatAdd(d.val[d.keys[i]], sum_values(d, i + 1))

\* cat_prob/total_sum > umbral, umbral being tenths/10
above_threshold(cat_prob, total_sum, tenths) ==
    LET score == RatDiv(cat_prob, total_sum)
    IN tenths * score.d < (NumThresholds - 1) * score.n

\* the body of `for index in range(len(X))`: c the counts so far, p the
\* posteriors of the row
classify_document(c, p, row, umbral, category) ==
    IF p.status # "ok" THEN [c EXCEPT !.status = p.status]
    ELSE IF ~HasKey(p.posteriors, category) THEN [c EXCEPT !.status = "KeyError"]
    ELSE IF sum_values(p.posteriors, 1).n = 0
         THEN [c EXCEPT !.status = "ZeroDivisionError"]
    ELSE IF above_threshold(p.posteriors.val[category], sum_values(p.posteriors, 1), umbral)
         THEN IF row.categoria = category THEN [c EXCEPT !.TP = @ + 1]
              ELSE [c EXCEPT !.FP = @ + 1]
         ELSE IF row.categoria = category THEN [c EXCEPT !.FN = @ + 1]
              ELSE [c EXCEPT !.TN = @ + 1]

RECURSIVE classify_loop(_, _, _, _, _, _, _)
classify_loop(m, tok, X, umbral, category, index, c) ==
    IF index > Len(X) \/ c.status # "ok" THEN c
    ELSE classify_loop(m, tok, X, umbral, category, index + 1,
                       classify_document(c, calculate_posteriors(m, tok, X[index].titular),
                                         X[index], umbral, category))

classify(m, tok, X, umbral, category) ==
    classify_loop(m, tok, X, umbral, category, 1,
                  [status |-> "ok", TP |-> 0, FP |-> 0, FN |-> 0, TN |-> 0])

----------------------------------------------------------------------------
(* extract_categories: df['categoria'].unique(), in order of first appearance *)

RECURSIVE unique(_)
unique(labels) ==
    IF labels = <<>> THEN <<>>
    ELSE LET init == unique(SubSeq(labels, 1, Len(labels) - 1))
             last == labels[Len(labels)]
         IN IF \E j \in 1..Len(init) : init[j] = last THEN init ELSE Append(init, last)

extract_categories(rows) == unique(RowLabels(rows))

----------------------------------------------------------------------------
(* roc: the threshold sweep, one curve per category *)

Thresholds == 0..(NumThresholds - 1)

\* the body of `for threshold in thresholds`: c what classify returned, r the
\* pair of lists so far
roc_point(c, r) ==
    IF c.status # "ok" THEN [r EXCEPT !.status = c.status]
    ELSE IF c.TP + c.FN = 0 THEN [r EXCEPT !.status = "ZeroDivisionError"]
    ELSE IF c.FP + c.TN = 0 THEN [r EXCEPT !.status = "ZeroDivisionError"]
    ELSE [r EXCEPT !.TP_percentages = Append(@, Rat(c.TP, c.TP + c.FN)),
                   !.FP_percentages = Append(@, Rat(c.FP, c.FP + c.TN))]

RECURSIVE roc_thresholds(_, _, _, _, _, _)
roc_thresholds(m, tok, X, threshold, category, r) ==
    IF threshold > NumThresholds - 1 \/ r.status # "ok" THEN r
    ELSE roc_thresholds(m, tok, X, threshold + 1, category,
                        roc_point(classify(m, tok, X, threshold, category), r))

\* the curve of one category joins the plot
roc_plot(curves, category, r) ==
    IF r.status # "ok" THEN [curves EXCEPT !.status = r.status]
    ELSE [status |-> "ok",
          curves |-> DictSet(curves.curves, category,
                             [TP_percentages |-> r.TP_percentages,
                              FP_percentages |-> r.FP_percentages])]

RECURSIVE roc_categories(_, _, _, _, _, _)
roc_categories(m, tok, X, categories, i, curves) ==
    IF i > Len(categories) \/ curves.status # "ok" THEN curves
    ELSE roc_categories(m, tok, X, categories, i + 1,
           roc_plot(curves, categories[i],
                    roc_thresholds(m, tok, X, 0, categories[i],
                                   [status |-> "ok", TP_percentages |-> <<>>,
                                    FP_percentages |-> <<>>])))

roc(m, tok, X, categories) ==
    roc_categories(m, tok, X, categories, 1, [status |-> "ok", curves |-> EmptyDict])

----------------------------------------------------------------------------
(* train_test_split *)

\* DataFrame.sample(frac=1): the rows in any order
Shuffles(rows) ==
    { [i \in 1..Len(rows) |-> rows[f[i]]] : f \in Permutations(1..Len(rows)) }

\* df[df[stratify_column] == category]
category_subset(frame, category) ==
    SelectSeq(frame, LAMBDA row : row.categoria = category)

\* a slip: the cut rounded up instead of down
split_idx_ceil(n, tenths) == (n * (10 - tenths) + 9) \div 10

\* int(len(category_subset) * (1 - test_size)), test_size being tenths/10
split_idx(n, tenths) == (n * (10 - tenths)) \div 10

\* category_subset[:split_idx]
train_subset(subset, idx) == SubSeq(subset, 1, idx)

\* a slip: the test slice starts one row early, at the last train row
test_subset_overlap(subset, idx) ==
    SubSeq(subset, IF idx > 0 THEN idx ELSE 1, Len(subset))

\* category_subset[split_idx:]
test_subset(subset, idx) == SubSeq(subset, idx + 1, Len(subset))

\* dropna(how='all', axis=0) drops the rows whose every column is missing; a
\* row whose category is set is not one of them
dropna_all(rows) == SelectSeq(rows, LAMBDA row : row.categoria # NaN)

\* pd.concat([set, subset]) if not subset.empty
concat_nonempty(rows, subset) == IF subset = <<>> THEN rows ELSE rows \o subset

\* the body of `for category in df[stratify_column].unique()`, the shuffled subset given
split_category(acc, shuffled, tenths) ==
    [train |-> concat_nonempty(acc.train,
                   dropna_all(train_subset(shuffled, split_idx(Len(shuffled), tenths)))),
     test |-> concat_nonempty(acc.test,
                   dropna_all(test_subset(shuffled, split_idx(Len(shuffled), tenths))))]

\* every outcome of the loop over the categories i.. of the frame
RECURSIVE split_loop(_, _, _, _, _)
split_loop(frame, tenths, categories, i, acc) ==
    IF i > Len(categories) THEN {acc}
    ELSE UNION { split_loop(frame, tenths, categories, i + 1,
                            split_category(acc, shuffled, tenths)) :
                 shuffled \in Shuffles(category_subset(frame, categories[i])) }

\* every (train_set, test_set) the call can return
train_test_split(frame, tenths) ==
    UNION { { [train |-> tr, test |-> te] : tr \in Shuffles(o.train), te \in Shuffles(o.test) } :
            o \in split_loop(frame, tenths, extract_categories(frame), 1,
                             [train |-> <<>>, test |-> <<>>]) }

----------------------------------------------------------------------------
(* macroaverage_values_matrix / show_matrix: the multi-class confusion grid *)

\* category_to_index = {category: i for i, category in enumerate(categories)}
category_to_index(categories) ==
    [c \in { categories[i] : i \in 1..Len(categories) } |->
        CHOOSE i \in 1..Len(categories) : categories[i] = c]

\* the body of `for true_label, pred_label in zip(y_test, y_pred)`
grid_count(g, index, true_label, pred_label) ==
    IF g.status # "ok" THEN g
    ELSE IF true_label \notin DOMAIN index \/ pred_label \notin DOMAIN index
         THEN [g EXCEPT !.status = "KeyError"]
    ELSE [g EXCEPT !.confusion_matrix[index[true_label], index[pred_label]] = @ + 1]

RECURSIVE grid_loop(_, _, _, _, _)
grid_loop(y_test, y_pred, index, k, g) ==
    IF k > Len(y_test) \/ k > Len(y_pred) THEN g
    ELSE grid_loop(y_test, y_pred, index, k + 1,
                   grid_count(g, index, y_test[k], y_pred[k]))

confusion_grid(y_test, y_pred, categories) ==
    grid_loop(y_test, y_pred, category_to_index(categories), 1,
              [status |-> "ok", matrix_size |-> Len(categories),
               confusion_matrix |->
                   [ij \in (1..Len(categories)) \X (1..Len(categories)) |-> 0]])

----------------------------------------------------------------------------
(* The classifier used as a library: fit on a training set, then one of    *)
(* predict, classify, roc on an evaluation set.                            *)

Model == [vocab |-> vocab, class_word_counts |-> class_word_counts,
          class_priors |-> class_priors]

NoRet == [op |-> "none"]

InitNB ==
    /\ pc = "new"
    /\ tokenizer \in TokenizerConfigs
    /\ df = <<>>
    /\ test_size = 0
    /\ train_set \in TrainSets
    /\ test_set \in TestSets
    /\ vocab = {}
    /\ class_word_counts = EmptyDict
    /\ class_priors = EmptyDict
    /\ ret = NoRet

Fit ==
    /\ pc \in {"new", "split"}
    /\ LET r == fit(NewModel, tokenizer, train_set)
       IN /\ vocab' = r.vocab
          /\ class_word_counts' = r.class_word_counts
          /\ class_priors' = r.class_priors
          /\ ret' = [op |-> "fit", status |-> r.status]
          /\ pc' = IF r.status = "ok"
                   THEN (IF pc = "new" THEN "fitted" ELSE "trained")
                   ELSE "raised"
    /\ UNCHANGED <<tokenizer, df, test_size, train_set, test_set>>

Predict ==
    /\ pc \in {"fitted", "trained"}
    /\ ret' = [op |-> "predict", out |-> predict(Model, tokenizer, test_set)]
    /\ pc' = IF pc = "fitted" THEN "done"
             ELSE IF ret'.out.status = "ok" THEN "predicted" ELSE "raised"
    /\ UNCHANGED <<tokenizer, df, test_size, train_set, test_set,
                   vocab, class_word_counts, class_priors>>

Classify ==
    /\ pc = "fitted"
    /\ \E umbral \in Thresholds, category \in Categories :
         ret' = [op |-> "classify", umbral |-> umbral, category |-> category,
                 out |-> classify(Model, tokenizer, test_set, umbral, category)]
    /\ pc' = "done"
    /\ UNCHANGED <<tokenizer, df, test_size, train_set, test_set,
                   vocab, class_word_counts, class_priors>>

Roc ==
    /\ pc = "fitted"
    /\ ret' = [op |-> "roc",
               out |-> roc(Model, tokenizer, test_set, extract_categories(train_set))]
    /\ pc' = "done"
    /\ UNCHANGED <<tokenizer, df, test_size, train_set, test_set,
                   vocab, class_word_counts, class_priors>>

NextNB == Fit \/ Predict

SpecNB == InitNB /\ [][NextNB]_vars

NextEval == Fit \/ Classify \/ Roc

SpecEval == InitNB /\ [][NextEval]_vars

----------------------------------------------------------------------------
(* train_test_split called on a frame, with any of the test fractions *)

InitFrame(frames) ==
    /\ pc = "loaded"
    /\ df \in frames
    /\ test_size = 0
    /\ train_set = <<>>
    /\ test_set = <<>>
    /\ vocab = {}
    /\ class_word_counts = EmptyDict
    /\ class_priors = EmptyDict
    /\ ret = NoRet

InitSplit == InitFrame(SplitFrames) /\ tokenizer = "identity"

Split(tenths) ==
    /\ pc = "loaded"
    /\ \E o \in train_test_split(df, tenths) :
         /\ train_set' = o.train
         /\ test_set' = o.test
    /\ test_size' = tenths
    /\ ret' = [op |-> "train_test_split"]
    /\ pc' = "split"
    /\ UNCHANGED <<tokenizer, df, vocab, class_word_counts, class_priors>>

TrainTestSplit == \E tenths \in TestTenths : Split(tenths)

NextSplit == TrainTestSplit

SpecSplit == InitSplit /\ [][NextSplit]_vars

----------------------------------------------------------------------------
(* main() and no_filters(): split, fit, predict the test set, build the grid *)

InitMain == InitFrame(Frames) /\ tokenizer \in TokenizerConfigs

\* split_train_test(df)
SplitTrainTest == Split(PipelineTestTenths)

\* show_matrix(y_test, y_pred, categories); macroaverage_values_matrix(...)
ShowMatrix ==
    /\ pc = "predicted"
    /\ ret' = [op |-> "grid", y_pred |-> ret.out.y_pred,
               categories |-> extract_categories(train_set),
               out |-> confusion_grid(RowLabels(test_set), ret.out.y_pred,
                                      extract_categories(train_set))]
    /\ pc' = "done"
    /\ UNCHANGED <<tokenizer, df, test_size, train_set, test_set,
                   vocab, class_word_counts, class_priors>>

NextMain == SplitTrainTest \/ Fit \/ Predict \/ ShowMatrix

SpecMain == InitMain /\ [][NextMain]_vars

----------------------------------------------------------------------------
(* What the properties below speak of *)

RECURSIVE SumOver(_, _)
SumOver(f, S) ==
    IF S = {} THEN 0
    ELSE LET x == CHOOSE y \in S : TRUE IN f[x] + SumOver(f, S \ {x})

Tokens(row) == tokenizer_apply(tokenizer, row.titular)

\* tokens the training documents yield, and how many of them are the word "__total__"
TrainTokens == SumOver([i \in 1..Len(train_set) |-> Len(Tokens(train_set[i]))],
                       1..Len(train_set))

TrainTotalWords ==
    SumOver([i \in 1..Len(train_set) |->
                Len(SelectSeq(Tokens(train_set[i]), LAMBDA w : w = TOTAL))],
            1..Len(train_set))

EveryDocumentYieldsAToken ==
    \A i \in 1..Len(train_set) : Len(Tokens(train_set[i])) >= 1

PriorSum == sum_values(class_priors, 1)

FitReturned == ret.op = "fit" /\ ret.status = "ok"

\* position of the first training document of a category
FirstSeen(c) ==
    CHOOSE i \in 1..Len(train_set) :
        /\ train_set[i].categoria = c
        /\ \A j \in 1..(i - 1) : train_set[j].categoria # c

PerTokenSum(counts) == SumOver(counts, (DOMAIN counts) \ {TOTAL})

CountIn(rows, c) == Len(SelectSeq(rows, LAMBDA row : row.categoria = c))

Occurrences(rows, id) == Len(SelectSeq(rows, LAMBDA row : row.id = id))

----------------------------------------------------------------------------
(* C1: after fit on a non-empty training set whose documents all yield at   *)
(* least one token, the class priors sum to 1.                              *)

\* C1 as stated: the priors sum to 1.  (Stated of the training sets without
\* the word "__total__", on which every total is the category's token count.)
C1_PriorsSumToOne ==
    (FitReturned /\ Len(train_set) > 0 /\ EveryDocumentYieldsAToken
                 /\ TrainTotalWords = 0)
        => PriorSum = RatOne

\* C1 amended: after fit on a non-empty training set the priors sum to the
\* number of tokens of the training set (a token "__total__" counted twice)
\* divided by the number of documents; the sum is at least 1 when every
\* document yields a token, and 1 when each yields exactly one token that
\* is not "__total__".
C1_PriorsSumToTokensPerDocument ==
    (FitReturned /\ Len(train_set) > 0)
        => /\ PriorSum = Rat(TrainTokens + TrainTotalWords, Len(train_set))
           /\ EveryDocumentYieldsAToken => ~RatLess(PriorSum, RatOne)
           /\ (TrainTokens + TrainTotalWords = Len(train_set)) => PriorSum = RatOne

C1_Witness ==
    /\ FitReturned
    /\ Len(train_set) = 2
    /\ EveryDocumentYieldsAToken
    /\ TrainTotalWords = 0
    /\ PriorSum = Rat(3, 2)

----------------------------------------------------------------------------
(* C2: fit called with zero documents ends in an error                      *)

\* C2 as stated: fit on zero documents does not return normally.
C2_EmptyTrainingSetRaises ==
    (ret.op = "fit" /\ train_set = <<>>) => ret.status # "ok"

\* C2 amended: fit on zero documents returns normally and leaves the
\* vocabulary, the word counts and the priors empty.
C2_EmptyTrainingSetReturnsEmptyModel ==
    (ret.op = "fit" /\ train_set = <<>>)
        => /\ ret.status = "ok"
           /\ vocab = {}
           /\ class_word_counts = EmptyDict
           /\ class_priors = EmptyDict

C2_Witness == ret.op = "fit" /\ train_set = <<>> /\ pc = "fitted"

----------------------------------------------------------------------------
(* C3: in roc a zero denominator of a rate yields the rate 0, never an error *)

AbsentFromTest(c) == CountIn(test_set, c) = 0

\* C3 as stated: roc returns, with NumThresholds points per category, and a
\* category with no document in the test set has TP-rate 0 at every threshold.
\* (Stated of the models with a non-empty vocabulary, on which every call of
\* classify returns: what is left to fail is the division of the rates.)
C3_RocZeroDenominatorYieldsZero ==
    (ret.op = "roc" /\ vocab # {})
        => /\ ret.out.status = "ok"
           /\ \A c \in DOMAIN ret.out.curves.val :
                /\ Len(ret.out.curves.val[c].TP_percentages) = NumThresholds
                /\ AbsentFromTest(c) =>
                     \A k \in 1..NumThresholds :
                        ret.out.curves.val[c].TP_percentages[k] = RatZero

----------------------------------------------------------------------------
(* C4: classify's four counts sum to the number of evaluated documents      *)

\* C4 as stated: for a model fit on a non-empty training set and a target
\* category the model knows, classify returns counts that sum to the number
\* of evaluated documents.
C4_ClassifyCountsSumToSetSize ==
    (ret.op = "classify" /\ Len(train_set) > 0 /\ HasKey(class_priors, ret.category))
        => /\ ret.out.status = "ok"
           /\ ret.out.TP + ret.out.FP + ret.out.FN + ret.out.TN = Len(test_set)

----------------------------------------------------------------------------
(* C5: a category's per-token counts sum to its __total__ counter           *)

\* C5 as stated: after fit, for every category the counts of its tokens sum
\* to its "__total__" entry.
C5_TokenCountsSumToTotal ==
    FitReturned
        => \A label \in DOMAIN class_word_counts.val :
              PerTokenSum(class_word_counts.val[label])
                  = class_word_counts.val[label][TOTAL]

----------------------------------------------------------------------------
(* C6: with a test fraction strictly between 0 and 1 every category of the  *)
(* input appears in the train set and in the test set                       *)

ProperFraction == 0 < test_size /\ test_size < 10

\* C6 as stated: every category with a document is in both returned sets.
C6_EveryCategoryInBothSets ==
    (pc = "split" /\ ProperFraction)
        => \A c \in Categories :
              CountIn(df, c) >= 1 =>
                  (CountIn(train_set, c) >= 1 /\ CountIn(test_set, c) >= 1)

\* C6 amended: a category with n documents has floor(n * (1 - fraction)) of
\* them in the train set and the others in the test set; it is in the test
\* set whenever n >= 1, and in the train set only when n * (1 - fraction) >= 1.
C6_CategoryCutAtFloor ==
    (pc = "split" /\ ProperFraction)
        => \A c \in Categories :
              LET n == CountIn(df, c)
                  k == CountIn(train_set, c)
              IN /\ 10 * k <= n * (10 - test_size)
                 /\ n * (10 - test_size) < 10 * (k + 1)
                 /\ CountIn(test_set, c) = n - k
                 /\ (n >= 1) => CountIn(test_set, c) >= 1
                 /\ (k >= 1) <=> (n * (10 - test_size) >= 10)

C6_Witness ==
    /\ pc = "split"
    /\ test_size = PipelineTestTenths
    /\ CountIn(df, "finance") = 2
    /\ CountIn(train_set, "finance") = 1
    /\ CountIn(test_set, "finance") = 1
    /\ CountIn(df, "sports") = 1
    /\ CountIn(train_set, "sports") = 0
    /\ CountIn(test_set, "sports") = 1

----------------------------------------------------------------------------
(* C7: the split keeps every category's documents, none in both sets        *)

\* C7: for every category the train and test counts add up to the input's
\* count, and every input document is in exactly one of the two sets, once.
C7_SplitIsAPartition ==
    (pc = "split")
        => /\ \A c \in Categories :
                CountIn(train_set, c) + CountIn(test_set, c) = CountIn(df, c)
           /\ \A i \in 1..Len(df) :
                Occurrences(train_set, df[i].id) + Occurrences(test_set, df[i].id) = 1
           /\ \A i \in 1..Len(train_set) : \A j \in 1..Len(test_set) :
                train_set[i].id # test_set[j].id
           /\ \A i \in 1..Len(train_set) : \E j \in 1..Len(df) : train_set[i] = df[j]
           /\ \A i \in 1..Len(test_set) : \E j \in 1..Len(df) : test_set[i] = df[j]

C7_Witness ==
    /\ pc = "split"
    /\ Len(df) = MaxRows
    /\ ProperFraction
    /\ CountIn(train_set, "finance") >= 1
    /\ CountIn(test_set, "finance") >= 1
    /\ CountIn(test_set, "sports") >= 1

----------------------------------------------------------------------------
(* C8: the multi-class grid of the pipeline is built without error, sums to *)
(* the number of evaluated documents and has the correct predictions on its *)
(* diagonal                                                                 *)

GridCells(g) == (1..g.matrix_size) \X (1..g.matrix_size)

GridSum(g) == SumOver(g.confusion_matrix, GridCells(g))

GridTrace(g) ==
    SumOver(g.confusion_matrix, { ij \in GridCells(g) : ij[1] = ij[2] })

CorrectPredictions ==
    Cardinality({ k \in 1..Len(test_set) : ret.y_pred[k] = test_set[k].categoria })

\* C8 as stated, the categories being those of the training partition.
C8_GridBuiltSumAndTrace ==
    (ret.op = "grid")
        => /\ ret.out.status = "ok"
           /\ GridSum(ret.out) = Len(test_set)
           /\ GridTrace(ret.out) = CorrectPredictions

----------------------------------------------------------------------------
(* C9: predict returns a category of maximal posterior, the first seen      *)
(* during fit among those that tie                                          *)

PosteriorsOf(row) == calculate_posteriors(Model, tokenizer, row.titular).posteriors.val

\* C9: whenever predict returns, it returns one category per text; that
\* category's posterior is maximal, and no category first seen earlier among
\* the training labels has the same posterior.  predict returns for every
\* text as soon as the model has a category and a non-empty vocabulary.
C9_PredictFirstSeenArgmax ==
    (ret.op = "predict")
        => /\ (ret.out.status = "ok") =>
                /\ Len(ret.out.y_pred) = Len(test_set)
                /\ \A k \in 1..Len(test_set) :
                     LET post == PosteriorsOf(test_set[k])
                         y == ret.out.y_pred[k]
                     IN /\ y \in DOMAIN post
                        /\ \A c \in DOMAIN post :
                             /\ ~RatLess(post[y], post[c])
                             /\ (post[c] = post[y]) => FirstSeen(y) <= FirstSeen(c)
           /\ (class_priors.keys # <<>> /\ vocab # {}) => ret.out.status = "ok"

C9_Witness ==
    /\ ret.op = "predict"
    /\ ret.out.status = "ok"
    /\ Len(train_set) = 2
    /\ train_set[1].categoria = "sports"
    /\ train_set[2].categoria = "finance"
    /\ \E k \in 1..Len(test_set) :
         /\ PosteriorsOf(test_set[k])["sports"] = PosteriorsOf(test_set[k])["finance"]
         /\ PosteriorsOf(test_set[k])["sports"] # RatZero
         /\ ret.out.y_pred[k] = "sports"

----------------------------------------------------------------------------
(* C10: the finance/sports scenario under the identity tokenizer            *)

ScenarioFitted ==
    FitReturned /\ tokenizer = "identity" /\ train_set = ScenarioTrain

\* C10 as stated: totals 6 and 3, and a vocabulary of 8 tokens.
C10_ScenarioVocabularyOfEight ==
    ScenarioFitted
        => /\ class_word_counts.val["finance"][TOTAL] = 6
           /\ class_word_counts.val["sports"][TOTAL] = 3
           /\ Cardinality(vocab) = 8

\* C10 amended: totals 6 and 3, and a vocabulary of 9 tokens.
C10_ScenarioVocabularyOfNine ==
    ScenarioFitted
        => /\ class_word_counts.val["finance"][TOTAL] = 6
           /\ class_word_counts.val["sports"][TOTAL] = 3
           /\ Cardinality(vocab) = 9

C10_Witness == ScenarioFitted /\ pc = "fitted"

====
